---- MODULE Spec2Model ----
(***************************************************************************)
(* Model of src/inverse_kinematics/hardcoded/setups.rs: the eight          *)
(* hard-coded robot setups (kinematic tables, the chain reduction of the   *)
(* fixed-joint variants with the degeneracy repair of RrcFixedQ6, the      *)
(* pose text format) and the SetupIk operations of a robot instance.       *)
(*                                                                         *)
(* Numbers.  An f64 of the harness is a fixed-point decimal with four      *)
(* places: the integer n stands for n / Scale, and every product is        *)
(* rounded to that resolution.  An angle is an integer number of twelfths  *)
(* of a turn (PI == 6), so that PI \div 6 is the constant of the fixed     *)
(* joints and sines and cosines come from a table.  The degeneracy repair  *)
(* is computed exactly, in the ring of numbers (a + b*sqrt(3)) / 2^k,      *)
(* which holds every quantity the RRC table and right or 30-degree angles  *)
(* produce.                                                                *)
(***************************************************************************)
EXTENDS Integers, Sequences, FiniteSets, TLC

(***************************************************************************)
(* Fixed-point arithmetic (the harness's f64).                             *)
(***************************************************************************)
Scale == 10 * 1000

\* std::f64::consts::PI, in twelfths of a turn
PI == 6

Abs(a) == IF a < 0 THEN -a ELSE a

\* a / b rounded to the nearest integer, b > 0
RoundDiv(a, b) == (2 * a + b) \div (2 * b)

FxMul(a, b) == RoundDiv(a * b, Scale)

\* the decimal n * 10^-6
Dec6(n) == RoundDiv(n, 100)

\* floor of the square root of n >= 0, by bisection on [lo, hi)
RECURSIVE IsqrtIn(_, _, _)
IsqrtIn(n, lo, hi) ==
    IF hi - lo <= 1 THEN lo
    ELSE LET mid == (lo + hi) \div 2
         IN  IF mid * mid <= n THEN IsqrtIn(n, mid, hi) ELSE IsqrtIn(n, lo, mid)

Isqrt(n) == IsqrtIn(n, 0, 46341)

CosTable == <<10000, 8660, 5000, 0, -5000, -8660, -10000, -8660, -5000, 0, 5000, 8660>>

FxCos(a) == CosTable[(a % (2 * PI)) + 1]

FxSin(a) == FxCos(a - PI \div 2)

(***************************************************************************)
(* Vectors are triples, matrices are triples of rows.                      *)
(***************************************************************************)
zv == <<0, 0, 0>>
ex == <<Scale, 0, 0>>
ey == <<0, Scale, 0>>
ez == <<0, 0, Scale>>

VAdd(u, v) == <<u[1] + v[1], u[2] + v[2], u[3] + v[3]>>
VSub(u, v) == <<u[1] - v[1], u[2] - v[2], u[3] - v[3]>>
VNeg(u) == <<-u[1], -u[2], -u[3]>>
VScale(s, u) == <<FxMul(s, u[1]), FxMul(s, u[2]), FxMul(s, u[3])>>

Identity == <<ex, ey, ez>>
MZeros == <<zv, zv, zv>>

MAdd(A, B) == <<VAdd(A[1], B[1]), VAdd(A[2], B[2]), VAdd(A[3], B[3])>>
MSub(A, B) == <<VSub(A[1], B[1]), VSub(A[2], B[2]), VSub(A[3], B[3])>>
MScale(s, A) == <<VScale(s, A[1]), VScale(s, A[2]), VScale(s, A[3])>>

MEntry(A, B, i, j) == FxMul(A[i][1], B[1][j]) + FxMul(A[i][2], B[2][j]) + FxMul(A[i][3], B[3][j])

MMul(A, B) ==
    << <<MEntry(A, B, 1, 1), MEntry(A, B, 1, 2), MEntry(A, B, 1, 3)>>,
       <<MEntry(A, B, 2, 1), MEntry(A, B, 2, 2), MEntry(A, B, 2, 3)>>,
       <<MEntry(A, B, 3, 1), MEntry(A, B, 3, 2), MEntry(A, B, 3, 3)>> >>

VEntry(A, v, i) == FxMul(A[i][1], v[1]) + FxMul(A[i][2], v[2]) + FxMul(A[i][3], v[3])

MVec(A, v) == <<VEntry(A, v, 1), VEntry(A, v, 2), VEntry(A, v, 3)>>

\* Norms are taken at three decimal places (squares of four-place numbers do
\* not fit the model's integers) and returned at four.
Sq3(a) == RoundDiv(a, 10) * RoundDiv(a, 10)

VNorm(v) == 10 * Isqrt(Sq3(v[1]) + Sq3(v[2]) + Sq3(v[3]))

MNorm(A) ==
    10 * Isqrt(Sq3(A[1][1]) + Sq3(A[1][2]) + Sq3(A[1][3])
             + Sq3(A[2][1]) + Sq3(A[2][2]) + Sq3(A[2][3])
             + Sq3(A[3][1]) + Sq3(A[3][2]) + Sq3(A[3][3]))

\* Vector3::normalize
Normalize(v) ==
    LET n == Isqrt(v[1] * v[1] + v[2] * v[2] + v[3] * v[3])
    IN  <<RoundDiv(v[1] * Scale, n), RoundDiv(v[2] * Scale, n), RoundDiv(v[3] * Scale, n)>>

Hat(k) == << <<0, -k[3], k[2]>>, <<k[3], 0, -k[1]>>, <<-k[2], k[1], 0>> >>

\* Rodrigues' formula
Rot(k, a) ==
    LET K == Hat(k)
    IN  MAdd(MAdd(Identity, MScale(FxSin(a), K)),
             MScale(Scale - FxCos(a), MMul(K, K)))

RECURSIVE FkFrom(_, _, _, _, _)
FkFrom(k, th, i, rot, pos) ==
    IF i > Len(th) THEN [r |-> rot, t |-> pos]
    ELSE LET r2 == MMul(rot, Rot(k.h[i], th[i]))
         IN  FkFrom(k, th, i + 1, r2, VAdd(pos, MVec(r2, k.p[i + 1])))

\* Kinematics::forward_kinematics: r = r * rot(h_i, theta_i), p = p + r * p_i
FkCompute(k, th) == FkFrom(k, th, 1, Identity, k.p[1])

(***************************************************************************)
(* The kinematic tables: get_kin of each robot.  h holds the joint axes,   *)
(* p the link vectors, one more than the axes.                             *)
(***************************************************************************)
Irb6640GetKin ==
    [h |-> <<ez, ey, ey, ex, ey, ex>>,
     p |-> <<zv,
             VAdd(VScale(3200, ex), VScale(7800, ez)),
             VScale(10750, ez),
             VAdd(VScale(11425, ex), VScale(2000, ez)),
             zv,
             zv,
             VScale(2000, ex)>>]

KukaR800FixedQ3GetKin ==
    [h |-> <<ez, ey, ez, VNeg(ey), ez, ey, ez>>,
     p |-> <<VScale(1500 + 1900, ez),
             zv,
             VScale(2100, ez),
             VScale(1900, ez),
             VScale(2100 + 1900, ez),
             zv,
             zv,
             VScale(810 + 450, ez)>>]

\* the link table of RrcFixedQ6 before its factor 0.0254, in thousandths
RrcLinks ==
    << <<0, 0, 0>>,
       <<20000, -4000, 0>>,
       <<0, 4000, 0>>,
       <<21500, 3375, 0>>,
       <<0, -3375, 0>>,
       <<21500, 3325, 0>>,
       <<0, -3325, 0>>,
       <<7000, 0, 0>> >>

\* 0.0254 * v, for v in thousandths
RrcScaled(v) == <<FxMul(254, 10 * v[1]), FxMul(254, 10 * v[2]), FxMul(254, 10 * v[3])>>

RrcFixedQ6GetKin ==
    [h |-> <<ex, ez, ex, ez, ex, ez, ex>>,
     p |-> [i \in 1..8 |-> RrcScaled(RrcLinks[i])]]

\* the rows of kin.p and kin.h of YumiFixedQ3 as written (from_row_slice)
YumiPRows ==
    << <<536, 642, 1578, 880, 1270, 354, 385, 40>>,
       <<725, 527, 406, 11, -877, -712, -87, -43>>,
       <<4149, 632, 650, 143, -700, -670, -30, -38>> >>

YumiHRows ==
    << <<8138, 1048, 8138, 1048, 5716, 1048, 5716>>,
       <<3420, 7088, 3420, 7088, -6170, 7088, -6170>>,
       <<4698, -6976, 4698, -6976, -5410, -6976, -5410>> >>

Column(rows, j) == <<rows[1][j], rows[2][j], rows[3][j]>>

YumiFixedQ3GetKin ==
    [h |-> [i \in 1..7 |-> Normalize(Column(YumiHRows, i))],
     p |-> [i \in 1..8 |-> Column(YumiPRows, i)]]

Ur5GetKin ==
    [h |-> <<ez, ey, ey, ey, VNeg(ez), ey>>,
     p |-> <<VScale(Dec6(89159), ez),
             VScale(1358, ey),
             VAdd(VScale(-1197, ey), VScale(4250, ex)),
             VScale(3922, ex),
             VScale(930, ey),
             VScale(-946, ez),
             VScale(823, ey)>>]

ThreeParallelBotGetKin ==
    [h |-> <<ez, ex, ex, ex, ez, ex>>,
     p |-> <<ez, ey, ey, ey, ey, VAdd(ey, ex), ex>>]

TwoParallelBotGetKin ==
    LET es == Normalize(VAdd(ex, ez))
    IN  [h |-> <<ez, ex, ex, ez, ex, es>>,
         p |-> <<ez, ey, ey, ey, ey, ey, ez>>]

SphericalBotGetKin ==
    [h |-> <<ey, ez, ey, ex, ey, ex>>,
     p |-> <<zv, VAdd(ez, ex), VAdd(ez, ex), VAdd(ez, ex), zv, zv, ex>>]

Robots ==
    {"Irb6640", "KukaR800FixedQ3", "RrcFixedQ6", "YumiFixedQ3",
     "Ur5", "ThreeParallelBot", "TwoParallelBot", "SphericalBot"}

\* Self::get_kin() of the named struct
GetKin(rb) ==
    CASE rb = "Irb6640" -> Irb6640GetKin
      [] rb = "KukaR800FixedQ3" -> KukaR800FixedQ3GetKin
      [] rb = "RrcFixedQ6" -> RrcFixedQ6GetKin
      [] rb = "YumiFixedQ3" -> YumiFixedQ3GetKin
      [] rb = "Ur5" -> Ur5GetKin
      [] rb = "ThreeParallelBot" -> ThreeParallelBotGetKin
      [] rb = "TwoParallelBot" -> TwoParallelBotGetKin
      [] rb = "SphericalBot" -> SphericalBotGetKin

\* $num_joints of define_struct!
NumJoints(rb) == IF rb \in {"KukaR800FixedQ3", "RrcFixedQ6", "YumiFixedQ3"} THEN 7 ELSE 6


(***************************************************************************)
(* The fixed-joint variants: the constant, the call that eliminates the    *)
(* joint (index from 0, as in the source) and the joint vector error()     *)
(* rebuilds from a six-entry candidate.                                    *)
(***************************************************************************)
KukaQ3 == PI \div 6
RrcQ6 == PI \div 6
YumiQ3 == PI \div 6

\* the arguments of kin.forward_kinematics_partial(Self::Q3, 2, &identity)
KukaPartialCall == [q_n |-> KukaQ3, n |-> 2, r_6t |-> Identity]
RrcPartialCall == [q_n |-> RrcQ6, n |-> 5, r_6t |-> Identity]
YumiPartialCall == [q_n |-> YumiQ3, n |-> 2, r_6t |-> Identity]

FixedRobots == {"KukaR800FixedQ3", "RrcFixedQ6", "YumiFixedQ3"}

\* what get_kin_partial() of the variant eliminates
PartialCall(rb) ==
    CASE rb = "KukaR800FixedQ3" -> KukaPartialCall
      [] rb = "RrcFixedQ6" -> RrcPartialCall
      [] rb = "YumiFixedQ3" -> YumiPartialCall

\* q_e of KukaR800FixedQ3::error
KukaQe(c) == <<c[1], c[2], KukaQ3, c[3], c[4], c[5], c[6]>>

\* q_e with the constant appended after the six candidate entries
RrcQeAppended(c) == <<c[1], c[2], c[3], c[4], c[5], c[6], RrcQ6>>

\* q_e of RrcFixedQ6::error
RrcQe(c) == <<c[1], c[2], c[3], c[4], c[5], RrcQ6, c[6]>>

\* q_e of YumiFixedQ3::error
YumiQe(c) == <<c[1], c[2], YumiQ3, c[3], c[4], c[5], c[6]>>

\* the joint vector error() evaluates for candidate c
ScoredVector(rb, c) ==
    CASE rb = "KukaR800FixedQ3" -> KukaQe(c)
      [] rb = "RrcFixedQ6" -> RrcQe(c)
      [] rb = "YumiFixedQ3" -> YumiQe(c)
      [] OTHER -> c

(***************************************************************************)
(* Outside collaborators: the random source, the solvers, the error of a   *)
(* full joint vector and the output writer.                                *)
(***************************************************************************)
\* how many different draws of the random source setup() may see
NumDraws == 2

\* how many candidates a solver returns at most
MaxCand == 2

\* random_angle(): the i-th angle of draw d, in (-PI, PI]
RandomAngle(d, i) == ((d * (i + 2) + i) % (2 * PI)) - (PI - 1)

\* Vector6::zeros().map(|_| random_angle()), Vector7 likewise
RandomVector(n, d) == [i \in 1..n |-> RandomAngle(d, i)]

\* q of setup(), with the fixed joint of the variant forced
Irb6640SetupQ(d) == RandomVector(6, d)
KukaSetupQ(d) == [RandomVector(7, d) EXCEPT ![2 + 1] = KukaQ3]
RrcSetupQ(d) == [RandomVector(7, d) EXCEPT ![5 + 1] = RrcQ6]
YumiSetupQ(d) == [RandomVector(7, d) EXCEPT ![2 + 1] = YumiQ3]

SetupQ(rb, d) ==
    CASE rb = "KukaR800FixedQ3" -> KukaSetupQ(d)
      [] rb = "RrcFixedQ6" -> RrcSetupQ(d)
      [] rb = "YumiFixedQ3" -> YumiSetupQ(d)
      [] OTHER -> Irb6640SetupQ(d)

\* sequence s without its i-th entry
RemoveAt(s, i) == [j \in 1..(Len(s) - 1) |-> IF j < i THEN s[j] ELSE s[j + 1]]

\* The candidates a solver may return: for each of two draws, the six free
\* joints of the configuration setup() makes of it, the first as an exact
\* root and the second as a least-squares fallback.
SolverVector(rb, d) ==
    CASE rb = "KukaR800FixedQ3" -> RemoveAt(KukaSetupQ(d), 3)
      [] rb = "RrcFixedQ6" -> RemoveAt(RrcSetupQ(d), 6)
      [] rb = "YumiFixedQ3" -> RemoveAt(YumiSetupQ(d), 3)
      [] OTHER -> Irb6640SetupQ(d)

SolverPool(rb) ==
    {[q |-> SolverVector(rb, 1), ls |-> FALSE],
     [q |-> SolverVector(rb, 2), ls |-> TRUE]}

\* every list of at most n elements of S
RECURSIVE ListsUpTo(_, _)
ListsUpTo(S, n) ==
    IF n = 0 THEN {<<>>}
    ELSE LET shorter == ListsUpTo(S, n - 1)
         IN  shorter \cup {Append(l, x) : l \in {m \in shorter : Len(m) = n - 1}, x \in S}

\* irb6640(&r, &t) and the other solvers: any list of candidates
SolverOutputs(rb) == ListsUpTo(SolverPool(rb), MaxCand)

\* The poses of the joint vectors the random source and the solvers can
\* produce, computed once.
FkKeys ==
    UNION {{<<GetKin(rb), SetupQ(rb, d)>> : d \in 1..NumDraws}
           \cup {<<GetKin(rb), ScoredVector(rb, c.q)>> : c \in SolverPool(rb)} : rb \in Robots}

FkTable == [key \in FkKeys |-> FkCompute(key[1], key[2])]

\* Kinematics::forward_kinematics
ForwardKinematics(k, th) ==
    IF <<k, th>> \in FkKeys THEN FkTable[<<k, th>>] ELSE FkCompute(k, th)

\* (r_t - r).norm() + (t_t - t).norm() for the pose of joint vector theta
PoseError(k, tr, tt, th) ==
    LET pose == ForwardKinematics(k, th)
    IN  MNorm(MSub(pose.r, tr)) + VNorm(VSub(pose.t, tt))

\* calculate_ik_error(&kin, &r, &t, q)
CalculateIkError(k, tr, tt, c) == PoseError(k, tr, tt, c)

\* ik_write_output(&q): one line per candidate
IkWriteOutput(cands) == cands

(***************************************************************************)
(* f64 results: a number or NaN.                                           *)
(***************************************************************************)
NAN == [nan |-> TRUE, v |-> 0]
Num(v) == [nan |-> FALSE, v |-> v]

\* f64::min: the other operand when one is NaN
F64Min(a, b) ==
    IF a.nan THEN b
    ELSE IF b.nan THEN a
    ELSE IF b.v < a.v THEN b ELSE a

\* a reduction that keeps the larger item
RECURSIVE ReduceMaxFrom(_, _, _)
ReduceMaxFrom(errs, i, acc) ==
    IF i > Len(errs) THEN acc
    ELSE ReduceMaxFrom(errs, i + 1, IF errs[i].v > acc.v THEN errs[i] ELSE acc)

\* Iterator::reduce(f64::min) from the first item on
RECURSIVE ReduceMinFrom(_, _, _)
ReduceMinFrom(errs, i, acc) ==
    IF i > Len(errs) THEN acc
    ELSE ReduceMinFrom(errs, i + 1, F64Min(acc, errs[i]))

\* .reduce(f64::min).unwrap_or(0.0)
ReduceMinOrZero(errs) ==
    IF errs = <<>> THEN Num(0) ELSE ReduceMinFrom(errs, 2, errs[1])

\* .reduce(f64::min).unwrap_or(NAN)
ReduceMinOrNan(errs) ==
    IF errs = <<>> THEN NAN ELSE ReduceMinFrom(errs, 2, errs[1])

\* the closure error() maps over self.q
CandidateError(rb, k, tr, tt, c) ==
    IF rb \in {"KukaR800FixedQ3", "RrcFixedQ6", "YumiFixedQ3"}
    THEN Num(PoseError(k, tr, tt, ScoredVector(rb, c)))
    ELSE Num(CalculateIkError(k, tr, tt, c))

\* error(&self)
ErrorValue(rb, k, tr, tt, cands) ==
    ReduceMinOrNan([i \in 1..Len(cands) |-> CandidateError(rb, k, tr, tt, cands[i])])

\* <$name as SetupStatic>::name()
LongName(rb) ==
    CASE rb = "Irb6640" -> "IRB 6640"
      [] rb = "KukaR800FixedQ3" -> "KUKA R800 Fixed Q3"
      [] rb = "RrcFixedQ6" -> "RRC Fixed Q6"
      [] rb = "YumiFixedQ3" -> "Yumi Fixed Q3"
      [] rb = "Ur5" -> "UR5"
      [] rb = "ThreeParallelBot" -> "Three Parallel Bot"
      [] rb = "TwoParallelBot" -> "Two Parallel Bot"
      [] rb = "SphericalBot" -> "Spherical Bot"


(***************************************************************************)
(* The pose text format.  A text is a sequence of characters.              *)
(***************************************************************************)
DigitChars == <<"0", "1", "2", "3", "4", "5", "6", "7", "8", "9">>

IsDigit(c) == \E i \in 1..10 : DigitChars[i] = c

DigitVal(c) == (CHOOSE i \in 1..10 : DigitChars[i] = c) - 1

\* raw.split(','): the pieces between the commas, at least one
RECURSIVE SplitFrom(_, _, _, _)
SplitFrom(raw, i, cur, done) ==
    IF i > Len(raw) THEN Append(done, cur)
    ELSE IF raw[i] = "," THEN SplitFrom(raw, i + 1, <<>>, Append(done, cur))
    ELSE SplitFrom(raw, i + 1, Append(cur, raw[i]), done)

Split(raw) == SplitFrom(raw, 1, <<>>, <<>>)

AllDigits(w) == \A i \in 1..Len(w) : IsDigit(w[i])

\* the value of the digits w as an integer
RECURSIVE IntValue(_, _, _)
IntValue(w, i, acc) == IF i > Len(w) THEN acc ELSE IntValue(w, i + 1, 10 * acc + DigitVal(w[i]))

\* the value of the digits w after the point, to four places
RECURSIVE FracValue(_, _, _)
FracValue(w, i, unit) ==
    IF i > Len(w) \/ unit = 0 THEN 0
    ELSE DigitVal(w[i]) * unit + FracValue(w, i + 1, unit \div 10)

\* str::parse::<f64> on the decimal literals: an optional sign, digits, an
\* optional point and digits, at least one digit in all; nothing is trimmed.
ParseF64(w) ==
    LET signed == Len(w) > 0 /\ w[1] \in {"+", "-"}
        body == IF signed THEN Tail(w) ELSE w
        dots == {i \in 1..Len(body) : body[i] = "."}
        dot == IF dots = {} THEN Len(body) + 1 ELSE CHOOSE i \in dots : \A j \in dots : i <= j
        whole == SubSeq(body, 1, dot - 1)
        frac == SubSeq(body, dot + 1, Len(body))
        ok == AllDigits(whole) /\ AllDigits(frac) /\ Len(whole) + Len(frac) > 0
        mag == IntValue(whole, 1, 0) * Scale + FracValue(frac, 1, Scale \div 10)
    IN  IF ok THEN [ok |-> TRUE, v |-> IF signed /\ w[1] = "-" THEN -mag ELSE mag]
        ELSE [ok |-> FALSE, v |-> 0]

\* data of hardcoded_setup_from_string before the unwrap: each piece parsed
ParsePieces(raw) ==
    LET pieces == Split(raw)
    IN  [i \in 1..Len(pieces) |-> ParseF64(pieces[i])]

\* the same with unwrap_or(0.0) for unwrap(): a piece that does not parse counts
\* as zero
HardcodedSetupFromStringDefaulting(parsed, r0, t0) ==
    LET data == [i \in 1..Len(parsed) |-> IF parsed[i].ok THEN parsed[i].v ELSE 0]
    IN  IF Len(data) < 9
        THEN [panicked |-> TRUE, r |-> r0, t |-> t0]
        ELSE LET r1 == << <<data[1], data[2], data[3]>>,
                          <<data[4], data[5], data[6]>>,
                          <<data[7], data[8], data[9]>> >>
             IN  IF Len(data) < 12
                 THEN [panicked |-> TRUE, r |-> r1, t |-> t0]
                 ELSE [panicked |-> FALSE, r |-> r1, t |-> <<data[10], data[11], data[12]>>]

\* the same with the nine numbers taken as columns
HardcodedSetupFromStringColumns(parsed, r0, t0) ==
    LET data == [i \in 1..Len(parsed) |-> parsed[i].v]
    IN  IF \E i \in 1..Len(parsed) : ~parsed[i].ok
        THEN [panicked |-> TRUE, r |-> r0, t |-> t0]
        ELSE IF Len(data) < 9
        THEN [panicked |-> TRUE, r |-> r0, t |-> t0]
        ELSE LET r1 == << <<data[1], data[4], data[7]>>,
                          <<data[2], data[5], data[8]>>,
                          <<data[3], data[6], data[9]>> >>
             IN  IF Len(data) < 12
                 THEN [panicked |-> TRUE, r |-> r1, t |-> t0]
                 ELSE [panicked |-> FALSE, r |-> r1, t |-> <<data[10], data[11], data[12]>>]

\* the same with each piece unwrapped only when it is used: r is stored as soon
\* as the first nine pieces parse
HardcodedSetupFromStringLazy(parsed, r0, t0) ==
    LET data == [i \in 1..Len(parsed) |-> parsed[i].v]
    IN  IF Len(data) < 9 \/ \E i \in 1..9 : ~parsed[i].ok
        THEN [panicked |-> TRUE, r |-> r0, t |-> t0]
        ELSE LET r1 == << <<data[1], data[2], data[3]>>,
                          <<data[4], data[5], data[6]>>,
                          <<data[7], data[8], data[9]>> >>
             IN  IF Len(data) < 12 \/ \E i \in 10..12 : ~parsed[i].ok
                 THEN [panicked |-> TRUE, r |-> r1, t |-> t0]
                 ELSE [panicked |-> FALSE, r |-> r1, t |-> <<data[10], data[11], data[12]>>]

\* hardcoded_setup_from_string(raw, &mut r, &mut t), parsed being the parsed
\* pieces of raw: every piece is unwrapped before anything is stored; then r is
\* built from data[0..8] and stored, then t from data[9..11].  An index past
\* the end panics.
HardcodedSetupFromString(parsed, r0, t0) ==
    LET data == [i \in 1..Len(parsed) |-> parsed[i].v]
    IN  IF \E i \in 1..Len(parsed) : ~parsed[i].ok
        THEN [panicked |-> TRUE, r |-> r0, t |-> t0]
        ELSE IF Len(data) < 9
        THEN [panicked |-> TRUE, r |-> r0, t |-> t0]
        ELSE LET r1 == << <<data[1], data[2], data[3]>>,
                          <<data[4], data[5], data[6]>>,
                          <<data[7], data[8], data[9]>> >>
             IN  IF Len(data) < 12
                 THEN [panicked |-> TRUE, r |-> r1, t |-> t0]
                 ELSE [panicked |-> FALSE, r |-> r1, t |-> <<data[10], data[11], data[12]>>]

(***************************************************************************)
(* Input texts.  The k-th number of a text is k - 1 unless the text is     *)
(* varied there.                                                           *)
(***************************************************************************)
\* the longest text has this many pieces
MaxTokens == 13

TokenCounts == {1, 9, 10, 11} \cup 12..MaxTokens

BaseToken(k) == IF k - 1 < 10 THEN <<DigitChars[k]>> ELSE <<"1", DigitChars[k - 10]>>

GoodTokens == {<<"-", "2">>, <<"1", ".", "5">>, <<"+", "3">>, <<".", "5">>, <<"4", ".">>}

BadTokens == {<<>>, <<"x">>, <<" ", "1">>, <<"-">>, <<".">>, <<"1", "x">>, <<"1", ".", "2", ".">>}

RECURSIVE JoinFrom(_, _, _)
JoinFrom(toks, i, acc) ==
    IF i > Len(toks) THEN acc
    ELSE JoinFrom(toks, i + 1, IF i = 1 THEN toks[i] ELSE acc \o <<",">> \o toks[i])

Join(toks) == JoinFrom(toks, 1, <<>>)

\* the pieces of the text with n numbers whose piece at pos (if any) is w
TextTokens(n, pos, w) == [k \in 1..n |-> IF k = pos THEN w ELSE BaseToken(k)]

\* a text: n numbers, the one at pos (0: none) replaced by the piece w
TextInputs ==
    [n : TokenCounts, pos : {0}, w : {<<>>}]
    \cup UNION {{[n |-> n, pos |-> pos, w |-> w] :
                    pos \in 1..n, w \in GoodTokens \cup BadTokens} : n \in TokenCounts}

TextOf(in) == Join(TextTokens(in.n, in.pos, in.w))

\* a call of setup_from_str: the input and the parsed pieces of its text
TextCall(in) == [in |-> in, parsed |-> ParsePieces(TextOf(in))]

TextCalls == {TextCall(in) : in \in TextInputs}

\* the texts the harness specification feeds an instance
HarnessTexts ==
    {[n |-> 12, pos |-> 0, w |-> <<>>],
     [n |-> 13, pos |-> 1, w |-> <<"-", "2">>],
     [n |-> 10, pos |-> 0, w |-> <<>>],
     [n |-> 12, pos |-> 12, w |-> <<"x">>]}

HarnessCalls == {TextCall(in) : in \in HarnessTexts}

(***************************************************************************)
(* Exact arithmetic for the chain reduction of RrcFixedQ6.  <<a, b, k>> is *)
(* the number (a + b*sqrt(3)) / 2^k, kept in lowest terms.  Lengths are in *)
(* thousandths of the table's unit; its factor 0.0254 is a change of unit, *)
(* which the reduction and forward kinematics commute with.                *)
(***************************************************************************)
RECURSIVE Pow2(_)
Pow2(n) == IF n = 0 THEN 1 ELSE 2 * Pow2(n - 1)

RECURSIVE XNorm(_)
XNorm(x) ==
    IF x[3] > 0 /\ x[1] % 2 = 0 /\ x[2] % 2 = 0
    THEN XNorm(<<x[1] \div 2, x[2] \div 2, x[3] - 1>>)
    ELSE x

X(n) == <<n, 0, 0>>
XZero == X(0)
XOne == X(1)

XAdd(x, y) ==
    LET k == IF x[3] > y[3] THEN x[3] ELSE y[3]
        fx == Pow2(k - x[3])
        fy == Pow2(k - y[3])
    IN  XNorm(<<fx * x[1] + fy * y[1], fx * x[2] + fy * y[2], k>>)

XNeg(x) == <<-x[1], -x[2], x[3]>>
XSub(x, y) == XAdd(x, XNeg(y))

XMul(x, y) ==
    XNorm(<<x[1] * y[1] + 3 * x[2] * y[2], x[1] * y[2] + x[2] * y[1], x[3] + y[3]>>)

\* is n a power of two
RECURSIVE IsPow2(_)
IsPow2(n) == n = 1 \/ (n > 1 /\ n % 2 = 0 /\ IsPow2(n \div 2))

RECURSIVE Log2(_)
Log2(n) == IF n <= 1 THEN 0 ELSE 1 + Log2(n \div 2)

\* 1 / x for x whose norm a^2 - 3 b^2 is a power of two up to sign: the
\* inverse is 2^k (a - b*sqrt(3)) / (a^2 - 3 b^2)
XInv(x) ==
    LET nrm == x[1] * x[1] - 3 * x[2] * x[2]
        sgn == IF nrm < 0 THEN -1 ELSE 1
        m == Log2(Abs(nrm))
    IN  CASE IsPow2(Abs(nrm)) ->
                IF x[3] >= m
                THEN <<sgn * x[1] * Pow2(x[3] - m), -sgn * x[2] * Pow2(x[3] - m), 0>>
                ELSE XNorm(<<sgn * x[1], -sgn * x[2], m - x[3]>>)

XCosTable ==
    << <<1, 0, 0>>, <<0, 1, 1>>, <<1, 0, 1>>, <<0, 0, 0>>, <<-1, 0, 1>>, <<0, -1, 1>>,
       <<-1, 0, 0>>, <<0, -1, 1>>, <<-1, 0, 1>>, <<0, 0, 0>>, <<1, 0, 1>>, <<0, 1, 1>> >>

XCos(a) == XCosTable[(a % (2 * PI)) + 1]
XSin(a) == XCos(a - PI \div 2)

XV(v) == <<X(v[1]), X(v[2]), X(v[3])>>
xzv == XV(<<0, 0, 0>>)
XIdentity == <<XV(<<1, 0, 0>>), XV(<<0, 1, 0>>), XV(<<0, 0, 1>>)>>

XVAdd(u, v) == <<XAdd(u[1], v[1]), XAdd(u[2], v[2]), XAdd(u[3], v[3])>>
XVSub(u, v) == <<XSub(u[1], v[1]), XSub(u[2], v[2]), XSub(u[3], v[3])>>
XVScale(c, u) == <<XMul(c, u[1]), XMul(c, u[2]), XMul(c, u[3])>>
XDot(u, v) == XAdd(XAdd(XMul(u[1], v[1]), XMul(u[2], v[2])), XMul(u[3], v[3]))

XCross(u, v) ==
    <<XSub(XMul(u[2], v[3]), XMul(u[3], v[2])),
      XSub(XMul(u[3], v[1]), XMul(u[1], v[3])),
      XSub(XMul(u[1], v[2]), XMul(u[2], v[1]))>>

XMAdd(A, B) == <<XVAdd(A[1], B[1]), XVAdd(A[2], B[2]), XVAdd(A[3], B[3])>>
XMScale(c, A) == <<XVScale(c, A[1]), XVScale(c, A[2]), XVScale(c, A[3])>>
XColumn(B, j) == <<B[1][j], B[2][j], B[3][j]>>

XMMul(A, B) ==
    << <<XDot(A[1], XColumn(B, 1)), XDot(A[1], XColumn(B, 2)), XDot(A[1], XColumn(B, 3))>>,
       <<XDot(A[2], XColumn(B, 1)), XDot(A[2], XColumn(B, 2)), XDot(A[2], XColumn(B, 3))>>,
       <<XDot(A[3], XColumn(B, 1)), XDot(A[3], XColumn(B, 2)), XDot(A[3], XColumn(B, 3))>> >>

XMVec(A, v) == <<XDot(A[1], v), XDot(A[2], v), XDot(A[3], v)>>

XHat(k) ==
    << <<XZero, XNeg(k[3]), k[2]>>, <<k[3], XZero, XNeg(k[1])>>, <<XNeg(k[2]), k[1], XZero>> >>

\* Rodrigues' formula
XRot(k, a) ==
    LET K == XHat(k)
    IN  XMAdd(XMAdd(XIdentity, XMScale(XSin(a), K)),
              XMScale(XSub(XOne, XCos(a)), XMMul(K, K)))

\* Kinematics::forward_kinematics: the value before the first joint, and the
\* passage of joint i (from 1) applied to the value acc reached before it
XFkStart(k) == [r |-> XIdentity, t |-> k.p[1]]

XFkStep(k, th, i, acc) ==
    LET r2 == XMMul(acc.r, XRot(k.h[i], th[i]))
    IN  [r |-> r2, t |-> XVAdd(acc.t, XMVec(r2, k.p[i + 1]))]

\* Kinematics::forward_kinematics_partial(q_n, n, r_6t), n counted from 0 and
\* r_n the rotation of joint n by q_n: joint n is dropped, the link after it is
\* folded, rotated, into the link before it, and what follows the joint (axes
\* and links) is carried by its rotation, as the equivalence with the full
\* chain requires.
XPartialWith(k, n, r_n, r_6t) ==
    [kin |->
        [h |-> [i \in 1..(Len(k.h) - 1) |->
                   IF i <= n THEN k.h[i] ELSE XMVec(r_n, k.h[i + 1])],
         p |-> [i \in 1..(Len(k.p) - 1) |->
                   IF i <= n THEN k.p[i]
                   ELSE XVAdd(IF i = n + 1 THEN k.p[i] ELSE xzv, XMVec(r_n, k.p[i + 1]))]],
     r_6t |-> XMMul(r_6t, r_n)]

XForwardKinematicsPartial(k, q_n, n, r_6t) ==
    XPartialWith(k, n, XRot(k.h[n + 1], q_n), r_6t)

\* the inverse of the Gram matrix <<g11, g12>>, <<g12, g22>> of a1, a2 applied
\* to their transposes
XGramSolve(a1, a2, g11, g12, g22, inv) ==
    <<XVScale(inv, XVSub(XVScale(g22, a1), XVScale(g12, a2))),
      XVScale(inv, XVSub(XVScale(g11, a2), XVScale(g12, a1)))>>

XGramDet(g11, g12, g22) == XSub(XMul(g11, g22), XMul(g12, g12))

XGramInverse(a1, a2, g11, g12, g22) ==
    CASE XGramDet(g11, g12, g22) # XZero ->
           XGramSolve(a1, a2, g11, g12, g22, XInv(XGramDet(g11, g12, g22)))

\* Matrix3x2::pseudo_inverse(eps) of the matrix with columns a1, a2, as its two
\* rows.  With independent columns it is (A^T A)^-1 A^T.  Dependent columns
\* are left to the linear-algebra library, which is not part of the source;
\* the shipped table never has them.
XPseudoInverse(a1, a2) ==
    XGramInverse(a1, a2, XDot(a1, a1), XDot(a1, a2), XDot(a2, a2))

\* RrcFixedQ6::get_kin, exactly
RrcExactGetKin ==
    [h |-> <<XV(<<1, 0, 0>>), XV(<<0, 0, 1>>), XV(<<1, 0, 0>>), XV(<<0, 0, 1>>),
             XV(<<1, 0, 0>>), XV(<<0, 0, 1>>), XV(<<1, 0, 0>>)>>,
     p |-> [i \in 1..8 |-> XV(RrcLinks[i])]]

\* kin.forward_kinematics_partial(Self::Q6, 5, &Matrix3::identity())
RrcReduced ==
    XForwardKinematicsPartial(RrcExactGetKin, RrcPartialCall.q_n, RrcPartialCall.n, XIdentity)

\* a 2x3 matrix, as its two rows, times a vector
XApplyRows(m, v) == <<XDot(m[1], v), XDot(m[2], v)>>

\* alpha taken from the link before the one the repair removes
RrcAlphaOfLink4(kin_partial) ==
    XApplyRows(XPseudoInverse(kin_partial.h[4 + 1], kin_partial.h[5 + 1]),
               kin_partial.p[4 + 1])

\* alpha of RrcFixedQ6::get_kin_partial
RrcAlpha(kin_partial) ==
    XApplyRows(XPseudoInverse(kin_partial.h[4 + 1], kin_partial.h[5 + 1]),
               kin_partial.p[5 + 1])

\* the three set_column calls of RrcFixedQ6::get_kin_partial
RrcRepair(kin_partial, alpha) ==
    LET delta_p_45 == XVScale(alpha[1], kin_partial.h[4 + 1])
        delta_p_6t == XVScale(alpha[2], kin_partial.h[5 + 1])
    IN  [h |-> kin_partial.h,
         p |-> [kin_partial.p EXCEPT ![4 + 1] = XVAdd(kin_partial.p[4 + 1], delta_p_45),
                                     ![5 + 1] = xzv,
                                     ![6 + 1] = XVAdd(kin_partial.p[6 + 1], delta_p_6t)]]

\* RrcFixedQ6::get_kin_partial from what forward_kinematics_partial returned;
\* before is the chain as it was before the repair
RrcGetKinPartialFrom(part) ==
    [kin |-> RrcRepair(part.kin, RrcAlpha(part.kin)),
     r_6t |-> part.r_6t,
     before |-> part.kin]

\* RrcFixedQ6::get_kin_partial
RrcGetKinPartial == RrcGetKinPartialFrom(RrcReduced)

(***************************************************************************)
(* A robot instance (define_struct!) and the calls made on it.             *)
(*   robot            which of the eight structs the instance is           *)
(*   kin r t q is_ls  its fields                                           *)
(*   panicked         a call on it has panicked; nothing is called after   *)
(*   op arg ret       the last call, its input and what it returned        *)
(*   used             the joint vectors the last call gave to              *)
(*                    forward_kinematics                                   *)
(*   before           the pose (r, t) before the last setup_from_str       *)
(*   solved           the pose the solver was given by the last run()      *)
(* and, for the chain reduction of RrcFixedQ6 taken alone:                 *)
(*   theta            six joint angles for the reduced chain               *)
(*   reduced          the chain forward_kinematics_partial returned        *)
(*   repaired         the chain get_kin_partial returned                   *)
(*   stage            "none", "drawn" (angles chosen) or "fk" (chains      *)
(*                    obtained, forward_kinematics running on both)        *)
(*   passed           the number of joints forward_kinematics has passed   *)
(*   fkPre fkPost     its value so far on reduced and on repaired          *)
(***************************************************************************)
VARIABLES robot, kin, r, t, q, is_ls, panicked, op, arg, ret, used, before, solved,
          stage, theta, reduced, repaired, passed, fkPre, fkPost

fields == <<kin, r, t, q, is_ls>>
harness == <<robot, kin, r, t, q, is_ls, panicked, op, arg, ret, used, before, solved>>
reduction == <<stage, theta, reduced, repaired, passed, fkPre, fkPost>>
vars == <<robot, kin, r, t, q, is_ls, panicked, op, arg, ret, used, before, solved,
          stage, theta, reduced, repaired, passed, fkPre, fkPost>>

\* SetupStatic::new
Init ==
    /\ robot \in Robots
    /\ kin = GetKin(robot)
    /\ r = MZeros
    /\ t = zv
    /\ q = <<>>
    /\ is_ls = <<>>
    /\ panicked = FALSE
    /\ op = "new"
    /\ arg = <<>>
    /\ ret = <<>>
    /\ used = <<>>
    /\ before = <<>>
    /\ solved = <<>>
    /\ stage = "none"
    /\ theta = <<>>
    /\ reduced = <<>>
    /\ repaired = <<>>
    /\ passed = 0
    /\ fkPre = <<>>
    /\ fkPost = <<>>

\* setup(&mut self), the random source making draw d
Setup(d) ==
    /\ ~panicked
    /\ LET qs == SetupQ(robot, d)
           pose == ForwardKinematics(kin, qs)
       IN  /\ r' = pose.r
           /\ t' = pose.t
           /\ used' = <<qs>>
    /\ op' = "setup"
    /\ arg' = d
    /\ ret' = <<>>
    /\ before' = <<>>
    /\ UNCHANGED <<robot, kin, q, is_ls, panicked, solved, reduction>>

\* setup_from_str(&mut self, raw), raw the text of call.in
SetupFromStr(call) ==
    /\ ~panicked
    /\ LET res == HardcodedSetupFromString(call.parsed, r, t)
       IN  /\ r' = res.r
           /\ t' = res.t
           /\ panicked' = res.panicked
    /\ op' = "setup_from_str"
    /\ arg' = call.in
    /\ ret' = <<>>
    /\ used' = <<>>
    /\ before' = <<r, t>>
    /\ UNCHANGED <<robot, kin, q, is_ls, solved, reduction>>

\* run(&mut self)
Run ==
    /\ ~panicked
    /\ \E out \in SolverOutputs(robot) :
          /\ q' = [i \in 1..Len(out) |-> out[i].q]
          /\ is_ls' = [i \in 1..Len(out) |-> out[i].ls]
    /\ solved' = <<r, t>>
    /\ op' = "run"
    /\ arg' = <<>>
    /\ ret' = <<>>
    /\ used' = <<>>
    /\ before' = <<>>
    /\ UNCHANGED <<robot, kin, r, t, panicked, reduction>>

\* error() taking the candidates out of self.q as it scores them
ErrorConsuming ==
    /\ ~panicked
    /\ ret' = ErrorValue(robot, kin, r, t, q)
    /\ used' = [i \in 1..Len(q) |-> ScoredVector(robot, q[i])]
    /\ q' = <<>>
    /\ op' = "error"
    /\ arg' = <<>>
    /\ before' = <<>>
    /\ UNCHANGED <<robot, kin, r, t, is_ls, panicked, solved, reduction>>

\* error(&self)
Error ==
    /\ ~panicked
    /\ ret' = ErrorValue(robot, kin, r, t, q)
    /\ used' = [i \in 1..Len(q) |-> ScoredVector(robot, q[i])]
    /\ op' = "error"
    /\ arg' = <<>>
    /\ before' = <<>>
    /\ UNCHANGED <<robot, kin, r, t, q, is_ls, panicked, solved, reduction>>

\* write_output(&self)
WriteOutput ==
    /\ ~panicked
    /\ ret' = IkWriteOutput(q)
    /\ op' = "write_output"
    /\ arg' = <<>>
    /\ used' = <<>>
    /\ before' = <<>>
    /\ UNCHANGED <<robot, kin, r, t, q, is_ls, panicked, solved, reduction>>

\* ls_count(&self)
LsCount ==
    /\ ~panicked
    /\ ret' = Cardinality({i \in 1..Len(is_ls) : is_ls[i]})
    /\ op' = "ls_count"
    /\ arg' = <<>>
    /\ used' = <<>>
    /\ before' = <<>>
    /\ UNCHANGED <<robot, kin, r, t, q, is_ls, panicked, solved, reduction>>

\* solution_count(&self)
SolutionCount ==
    /\ ~panicked
    /\ ret' = Len(is_ls)
    /\ op' = "solution_count"
    /\ arg' = <<>>
    /\ used' = <<>>
    /\ before' = <<>>
    /\ UNCHANGED <<robot, kin, r, t, q, is_ls, panicked, solved, reduction>>

\* name(&self)
Name ==
    /\ ~panicked
    /\ ret' = LongName(robot)
    /\ op' = "name"
    /\ arg' = <<>>
    /\ used' = <<>>
    /\ before' = <<>>
    /\ UNCHANGED <<robot, kin, r, t, q, is_ls, panicked, solved, reduction>>

\* debug(&self, i): prints i, r and t
Debug(i) ==
    /\ ~panicked
    /\ ret' = <<i, r, t>>
    /\ op' = "debug"
    /\ arg' = i
    /\ used' = <<>>
    /\ before' = <<>>
    /\ UNCHANGED <<robot, kin, r, t, q, is_ls, panicked, solved, reduction>>

Next ==
    \/ \E d \in 1..NumDraws : Setup(d)
    \/ \E call \in HarnessCalls : SetupFromStr(call)
    \/ Run
    \/ Error
    \/ WriteOutput
    \/ LsCount
    \/ SolutionCount
    \/ Name
    \/ \E i \in 0..1 : Debug(i)

Spec == Init /\ [][Next]_vars

\* The text format taken alone: texts given to a fresh instance, or to one
\* that setup() or an earlier text has given a pose.
TextNext ==
    \/ \E d \in 1..NumDraws : Setup(d)
    \/ \E call \in HarnessCalls : SetupFromStr(call)
    \/ op \in {"new", "setup"} /\ \E call \in TextCalls : SetupFromStr(call)

SpecText == Init /\ [][TextNext]_vars

(***************************************************************************)
(* The chain reduction of RrcFixedQ6 taken alone: get_kin_partial() is     *)
(* called, and forward_kinematics is run on the chain it returns and on    *)
(* the chain as it was before the repair, with the same six angles.        *)
(***************************************************************************)
NumAngles == 2
RepairAngle(i) == ((7 * i) % (2 * PI)) - (PI - 1)
RepairAngles == {RepairAngle(i) : i \in 1..NumAngles}

InitRepair ==
    /\ robot = "RrcFixedQ6"
    /\ kin = GetKin(robot)
    /\ r = MZeros
    /\ t = zv
    /\ q = <<>>
    /\ is_ls = <<>>
    /\ panicked = FALSE
    /\ op = "new"
    /\ arg = <<>>
    /\ ret = <<>>
    /\ used = <<>>
    /\ before = <<>>
    /\ solved = <<>>
    /\ stage = "drawn"
    /\ theta \in [1..6 -> RepairAngles]
    /\ reduced = <<>>
    /\ repaired = <<>>
    /\ passed = 0
    /\ fkPre = <<>>
    /\ fkPost = <<>>

\* RrcFixedQ6::get_kin_partial()
GetKinPartial ==
    /\ stage = "drawn"
    /\ \E got \in {RrcGetKinPartial} :
          /\ reduced' = got.before
          /\ repaired' = got.kin
    /\ fkPre' = XFkStart(reduced')
    /\ fkPost' = XFkStart(repaired')
    /\ stage' = "fk"
    /\ UNCHANGED <<harness, theta, passed>>

\* forward_kinematics passes one more joint on both chains
FkStep ==
    /\ stage = "fk"
    /\ passed < Len(theta)
    /\ fkPre' = XFkStep(reduced, theta, passed + 1, fkPre)
    /\ fkPost' = XFkStep(repaired, theta, passed + 1, fkPost)
    /\ passed' = passed + 1
    /\ UNCHANGED <<harness, stage, theta, reduced, repaired>>

RepairNext ==
    \/ GetKinPartial
    \/ FkStep

SpecRepair == InitRepair /\ [][RepairNext]_vars

(***************************************************************************)
(* Properties of the harness (Spec).                                       *)
(***************************************************************************)
ReportOps == {"error", "write_output", "ls_count", "solution_count"}
ReadOnlyOps == ReportOps \cup {"name"}

\* C1: for every robot, error() called while no candidate is stored (before
\* any run(), or after a run() that returned none) returns the NaN sentinel
\* and does not panic.
C1_EmptyErrorIsNan ==
    (op = "error" /\ q = <<>>) => (ret = NAN /\ ~panicked)

C1_Witness ==
    /\ op = "error"
    /\ robot = "Ur5"
    /\ solved # <<>>
    /\ q = <<>>
    /\ ret = NAN

\* the error of the i-th stored candidate against the stored pose
ErrOf(i) == CandidateError(robot, kin, r, t, q[i])

\* C2: with candidates stored, error() returns a number that is the error of
\* one of them and at most the error of each of them, whatever their order.
C2_ErrorIsMinimum ==
    (op = "error" /\ q # <<>>) =>
        /\ ~ret.nan
        /\ \E i \in 1..Len(q) : ret = ErrOf(i)
        /\ \A i \in 1..Len(q) : ret.v <= ErrOf(i).v

C2_Witness ==
    /\ op = "error"
    /\ Len(q) = 2
    /\ ErrOf(2).v < ErrOf(1).v
    /\ ret = ErrOf(2)

\* C7: kin stays what get_kin() produced in new() through every call, and
\* error(), write_output(), ls_count(), solution_count() and name() change no
\* field.
C7_KinImmutable ==
    /\ [](kin = GetKin(robot))
    /\ [][kin' = kin /\ (op' \in ReadOnlyOps => fields' = fields)]_vars

C7_Witness ==
    /\ op = "error"
    /\ Len(q) = 2
    /\ solved # <<>>
    /\ <<r, t>> # solved
    /\ kin = GetKin(robot)

\* C8: for the fixed-joint variants the vector error() scores has the
\* variant's constant at the declared index and the candidate's six entries in
\* order elsewhere; setup() forces the same constant at the same index and
\* samples every other joint; get_kin_partial() eliminates that index with
\* that constant (index 2 for Kuka and Yumi, 5 for Rrc, constant pi/6).
C8_FixedJointConsistent ==
    robot \in FixedRobots =>
        LET fixed == PartialCall(robot)
            idx == fixed.n + 1
        IN  /\ fixed.n = (IF robot = "RrcFixedQ6" THEN 5 ELSE 2)
            /\ 6 * fixed.q_n = PI
            /\ op = "error" =>
                   /\ Len(used) = Len(q)
                   /\ \A i \in 1..Len(q) :
                          /\ Len(used[i]) = 7
                          /\ used[i][idx] = fixed.q_n
                          /\ \A j \in 1..6 :
                                 q[i][j] = used[i][IF j < idx THEN j ELSE j + 1]
            /\ op = "setup" =>
                   /\ Len(used[1]) = 7
                   /\ used[1][idx] = fixed.q_n
                   /\ \A j \in (1..7) \ {idx} : used[1][j] = RandomAngle(arg, j)

C8_Witness ==
    /\ robot = "RrcFixedQ6"
    /\ op = "error"
    /\ Len(q) = 2
    /\ q[1] # q[2]
    /\ used[2][6] = RrcQ6

\* C9: the candidates error(), ls_count(), solution_count() and
\* write_output() report were produced by the solver from the pose the
\* instance holds now; none is reported that was computed for an earlier pose.
C9_NoStaleCandidates ==
    (op \in ReportOps /\ (q # <<>> \/ is_ls # <<>>)) => solved = <<r, t>>

(***************************************************************************)
(* Properties of the text format (SpecText).                               *)
(***************************************************************************)
\* the number a generated token stands for
GoodValue(w) ==
    CASE w = <<"-", "2">> -> -2 * Scale
      [] w = <<"1", ".", "5">> -> (3 * Scale) \div 2
      [] w = <<"+", "3">> -> 3 * Scale
      [] w = <<".", "5">> -> Scale \div 2
      [] w = <<"4", ".">> -> 4 * Scale

\* the number the k-th token of input in stands for
ExpectedValue(in, k) ==
    IF k = in.pos THEN GoodValue(in.w) ELSE (k - 1) * Scale

\* every token of input in is a real number
AllTokensReal(in) == in.pos = 0 \/ in.w \in GoodTokens

\* C5: setup_from_str succeeds exactly when the text has at least 12 tokens
\* and every token is a real number; otherwise it panics, and no default
\* stands in for a missing or malformed number.
C5_SucceedsIffTwelveReals ==
    op = "setup_from_str" => (~panicked <=> (arg.n >= 12 /\ AllTokensReal(arg)))

C5_Witness ==
    /\ op = "setup_from_str"
    /\ panicked
    /\ arg.n = 13
    /\ arg.pos = 13
    /\ arg.w = <<"1", "x">>

\* C6: on success the rotation entry at row i, column j is token 3i + j and
\* translation entry i is token 9 + i (counting from 0); tokens after the
\* twelfth have no effect.
C6_RowMajorFirstTwelve ==
    (op = "setup_from_str" /\ ~panicked) =>
        \A i \in 0..2 :
            /\ t[i + 1] = ExpectedValue(arg, 9 + i + 1)
            /\ \A j \in 0..2 : r[i + 1][j + 1] = ExpectedValue(arg, 3 * i + j + 1)

C6_Witness ==
    /\ op = "setup_from_str"
    /\ ~panicked
    /\ arg.n = 13
    /\ arg.pos = 13
    /\ arg.w = <<"-", "2">>
    /\ r[1][2] = Scale
    /\ r[2][1] = 3 * Scale
    /\ t = <<9 * Scale, 10 * Scale, 11 * Scale>>

\* C10 as claimed: when setup_from_str fails, r and t both still hold the
\* values they had before the call.
C10_FailedParseAtomic ==
    (op = "setup_from_str" /\ panicked) => <<r, t>> = before

\* C10 as amended: when setup_from_str fails, t still holds the value it had
\* before the call, and so does r unless the text has 9, 10 or 11 tokens that
\* are all real numbers, in which case r holds the first nine, row-major.
C10_FailedParseKeepsT ==
    (op = "setup_from_str" /\ panicked) =>
        /\ t = before[2]
        /\ IF arg.n \in 9..11 /\ AllTokensReal(arg)
           THEN \A i \in 0..2, j \in 0..2 : r[i + 1][j + 1] = ExpectedValue(arg, 3 * i + j + 1)
           ELSE r = before[1]

C10_Witness ==
    /\ op = "setup_from_str"
    /\ panicked
    /\ arg.n = 11
    /\ arg.pos = 10
    /\ arg.w = <<"1", ".", "5">>
    /\ before[2] # zv
    /\ t = before[2]
    /\ r # before[1]
    /\ r[3][3] = 8 * Scale

(***************************************************************************)
(* Properties of the chain reduction (SpecRepair).                         *)
(***************************************************************************)
\* u is a multiple of the non-zero vector v
XParallel(u, v) == XCross(u, v) = xzv

\* C3: the repair zeroes link column 5 of the reduced chain, changes link
\* column 4 by a multiple of axis column 4 and link column 6 by a multiple of
\* axis column 5, changes nothing else, and forward kinematics of the
\* repaired chain equals that of the chain before the repair for every six
\* joint angles.
C3_RepairKeepsPose ==
    stage = "fk" =>
        /\ repaired.p[5 + 1] = xzv
        /\ XParallel(XVSub(repaired.p[4 + 1], reduced.p[4 + 1]), reduced.h[4 + 1])
        /\ XParallel(XVSub(repaired.p[6 + 1], reduced.p[6 + 1]), reduced.h[5 + 1])
        /\ repaired.h = reduced.h
        /\ \A i \in 1..4 : repaired.p[i] = reduced.p[i]
        /\ passed = Len(theta) => fkPost = fkPre

C3_Witness ==
    /\ stage = "fk"
    /\ passed = 6
    /\ theta[5] # theta[6]
    /\ reduced.p[5 + 1] # xzv
    /\ repaired.p[4 + 1] # reduced.p[4 + 1]
    /\ repaired.p[6 + 1] # reduced.p[6 + 1]
    /\ fkPost = fkPre

====
